---------------------------- MODULE Spec2Model ----------------------------
(***************************************************************************)
(* A model of package worker (foundation/worker/worker.go): a Worker that  *)
(* admits jobs under a counting semaphore, keeps a registry of cancel      *)
(* functions keyed by work key, and drains on Shutdown.                    *)
(*                                                                         *)
(* Every goroutine is a process: one caller per Start call, the job        *)
(* goroutine that Start launches, the Shutdown caller and the goroutine    *)
(* Shutdown launches to wait on the WaitGroup.  A Go select with several   *)
(* ready cases picks any of them, so each case is its own action.          *)
(*                                                                         *)
(* Time is not counted.  A deadline is "pending" or "passed", and the      *)
(* passing of a deadline is an action of its own.                          *)
(***************************************************************************)
EXTENDS Integers, FiniteSets

VARIABLES
    capacity,    \* the argument New was called with
    sem,         \* number of values buffered in w.sem
    isShutdown,  \* TRUE once w.isShutdown is closed
    mu,          \* holder of w.mu: Unlocked or the caller inside Start
    running,     \* w.running: work key -> the job context its cancel func cancels
    wg,          \* counter of w.wg
    pc,          \* per caller: position inside Start; in its select a Start
                 \* is at "select" (about to poll the cases), "parked"
                 \* (no case was ready, it sleeps on the three channels)
                 \* or "wokenShutdown", "wokenCtx", "wokenSem" (the
                 \* channel operation that woke it has chosen its case)
    ctxDeadline, \* per caller: deadline of the context passed to Start
    ctxCancelled,\* per caller: the context passed to Start was cancelled
    late,        \* per caller: isShutdown was closed when Start was called
    result,      \* per caller: what Start returned
    jobpc,       \* per job goroutine: position
    jobCtx,      \* per job: Err() of the context Start derived for it
    sdpc,        \* position of the Shutdown caller
    sdCtx,       \* the context passed to Shutdown
    sdResult,    \* what Shutdown returned
    ch,          \* Shutdown's local channel ch: "none", "open", "closed"
    stopErr      \* what the latest Stop returned

vars == <<capacity, sem, isShutdown, mu, running, wg, pc, ctxDeadline,
          ctxCancelled, late, result, jobpc, jobCtx, sdpc, sdCtx, sdResult,
          ch, stopErr>>

---------------------------------------------------------------------------
(* Bounds of the model *)

NumCallers == 2
MaxCapacity == 2

Callers == 1..NumCallers
Capacities == (0 - 1)..MaxCapacity

(* The deadline of a context: "none" when ctx.Deadline() reports ok = false *)
Deadlines == {"none", "pending", "passed"}

(* uuid.NewString(): a fresh key per Start call; caller c's call mints c. *)
NewString(c) == c

(* The empty work key "" that a failed Start returns; no Start mints it. *)
EmptyKey == 0
Keys == Callers \cup {EmptyKey}

(* w.mu with no holder *)
Unlocked == 0

NoResult == [key |-> EmptyKey, err |-> "none"]

---------------------------------------------------------------------------
(* New *)

(* A check that also turns capacity 0 away *)
NewErr_RejectZero(cap) ==
    IF cap <= 0 THEN "max running jobs must be greater than 0" ELSE "nil"

(* if capacity < 0 { return nil, errors.New(...) } *)
NewErr(cap) == IF cap < 0 THEN "max running jobs must be greater than 0" ELSE "nil"

Constructed == NewErr(capacity) = "nil"

(* A fill loop that runs once too often *)
InitialTokens_OneMore(cap) == IF cap < 0 THEN 0 ELSE cap + 1

(* sem := make(chan bool, capacity); for i := 0; i < capacity; i++ { sem <- true } *)
InitialTokens(cap) == IF cap < 0 THEN 0 ELSE cap

Init ==
    /\ capacity \in Capacities
    /\ sem = InitialTokens(capacity)
    /\ isShutdown = FALSE
    /\ mu = Unlocked
    /\ running = << >>
    /\ wg = 0
    /\ pc = [c \in Callers |-> "idle"]
    /\ ctxDeadline = [c \in Callers |-> "none"]
    /\ ctxCancelled = [c \in Callers |-> FALSE]
    /\ late = [c \in Callers |-> FALSE]
    /\ result = [c \in Callers |-> NoResult]
    /\ jobpc = [c \in Callers |-> "none"]
    /\ jobCtx = [c \in Callers |-> "none"]
    /\ sdpc = "idle"
    /\ sdCtx = "live"
    /\ sdResult = "none"
    /\ ch = "none"
    /\ stopErr = "none"

---------------------------------------------------------------------------
(* Contexts *)

(* ctx.Done() of the context caller c passed to Start is ready *)
CtxDone(c) == ctxCancelled[c] \/ ctxDeadline[c] = "passed"

CtxErr(c) ==
    IF ctxCancelled[c] THEN "context canceled"
    ELSE IF ctxDeadline[c] = "passed" THEN "context deadline exceeded"
    ELSE "nil"

(* A cancel func that sets the error again on a context that is done *)
Cancel_Overwrite(js) ==
    [j \in Callers |-> IF j \in js THEN "context canceled" ELSE jobCtx[j]]

(* The job contexts after the cancel funcs of the contexts in js ran:
   cancel() on a context that is already done changes nothing. *)
Cancel(js) ==
    [j \in Callers |-> IF j \in js /\ jobCtx[j] = "nil"
                         THEN "context canceled" ELSE jobCtx[j]]

(* Running *)
Running == Cardinality(DOMAIN running)

---------------------------------------------------------------------------
(* Start *)

(* A caller calls Start with a context whose deadline is d. *)
StartCall(c, d) ==
    /\ Constructed
    /\ pc[c] = "idle"
    /\ pc' = [pc EXCEPT ![c] = "select"]
    /\ ctxDeadline' = [ctxDeadline EXCEPT ![c] = d]
    /\ late' = [late EXCEPT ![c] = isShutdown]
    /\ UNCHANGED <<capacity, sem, isShutdown, mu, running, wg, ctxCancelled,
                   result, jobpc, jobCtx, sdpc, sdCtx, sdResult, ch, stopErr>>

(* The positions of a Start that has been called and has not returned *)
InStart ==
    {"select", "parked", "wokenShutdown", "wokenCtx", "wokenSem", "acquired",
     "registered"}

(* A close that wakes no sleeping Start *)
Wake_Never(cs, case) == pc

(* The positions after a channel that the Starts in cs receive from in their
   select was closed: a parked select is woken with that case, and the
   first operation to wake it settles its case. *)
Wake(cs, case) ==
    [c \in Callers |-> IF c \in cs /\ pc[c] = "parked" THEN case ELSE pc[c]]

(* A job context that is a child of the context passed to Start *)
AfterCallerCancel_Child(c) == Cancel({NewString(c)})

(* The job contexts after the context caller c passed to Start was
   cancelled: the job's context is derived from context.Background(), so
   the caller's cancellation does not reach it. *)
AfterCallerCancel(c) == jobCtx

(* The caller's side cancels the context it passed to Start, while Start
   runs. *)
CancelCallerCtx(c) ==
    /\ pc[c] \in InStart
    /\ ~CtxDone(c)
    /\ ctxCancelled' = [ctxCancelled EXCEPT ![c] = TRUE]
    /\ pc' = Wake({c}, "wokenCtx")
    /\ jobCtx' = AfterCallerCancel(c)
    /\ UNCHANGED <<capacity, sem, isShutdown, mu, running, wg, ctxDeadline,
                   late, result, jobpc, sdpc, sdCtx, sdResult, ch, stopErr>>

(* The deadline of the context passed to Start passes, while Start runs.  A
   job context that inherited the deadline expires at the same instant. *)
CtxDeadlinePasses(c) ==
    /\ pc[c] \in InStart
    /\ ctxDeadline[c] = "pending"
    /\ ctxDeadline' = [ctxDeadline EXCEPT ![c] = "passed"]
    /\ pc' = IF ctxCancelled[c] THEN pc ELSE Wake({c}, "wokenCtx")
    /\ jobCtx' = [jobCtx EXCEPT ![NewString(c)] =
                    IF @ = "nil" THEN "context deadline exceeded" ELSE @]
    /\ UNCHANGED <<capacity, sem, isShutdown, mu, running, wg, ctxCancelled,
                   late, result, jobpc, sdpc, sdCtx, sdResult, ch, stopErr>>

(* Start returns (key, err); the model stops following the caller's
   context, which nothing reads any more. *)
Return(c, key, err) ==
    /\ pc' = [pc EXCEPT ![c] = "returned"]
    /\ result' = [result EXCEPT ![c] = [key |-> key, err |-> err]]
    /\ ctxDeadline' = [ctxDeadline EXCEPT ![c] = "none"]
    /\ ctxCancelled' = [ctxCancelled EXCEPT ![c] = FALSE]
    /\ late' = [late EXCEPT ![c] = FALSE]

(* select with no case ready: the Start sleeps until a channel operation
   wakes it. *)
StartPark(c) ==
    /\ pc[c] = "select"
    /\ ~isShutdown
    /\ ~CtxDone(c)
    /\ sem = 0
    /\ pc' = [pc EXCEPT ![c] = "parked"]
    /\ UNCHANGED <<capacity, sem, isShutdown, mu, running, wg, ctxDeadline,
                   ctxCancelled, late, result, jobpc, jobCtx, sdpc, sdCtx,
                   sdResult, ch, stopErr>>

(* select, case <-w.isShutdown: found ready when the select polls, or the
   close that woke the parked select *)
StartShutdown(c) ==
    /\ \/ pc[c] = "select" /\ isShutdown
       \/ pc[c] = "wokenShutdown"
    /\ Return(c, EmptyKey, "shutting down")
    /\ UNCHANGED <<capacity, sem, isShutdown, mu, running, wg, jobpc, jobCtx,
                   sdpc, sdCtx, sdResult, ch, stopErr>>

(* A failing Start that takes a token with it *)
StartCtxDone_TakesToken(c) ==
    /\ \/ pc[c] = "select" /\ CtxDone(c)
       \/ pc[c] = "wokenCtx"
    /\ Return(c, EmptyKey, CtxErr(c))
    /\ sem' = IF sem > 0 THEN sem - 1 ELSE sem
    /\ UNCHANGED <<capacity, isShutdown, mu, running, wg, jobpc, jobCtx,
                   sdpc, sdCtx, sdResult, ch, stopErr>>

(* select, case <-ctx.Done(): found ready when the select polls, or the
   cancellation that woke the parked select *)
StartCtxDone(c) ==
    /\ \/ pc[c] = "select" /\ CtxDone(c)
       \/ pc[c] = "wokenCtx"
    /\ Return(c, EmptyKey, CtxErr(c))
    /\ UNCHANGED <<capacity, sem, isShutdown, mu, running, wg, jobpc, jobCtx,
                   sdpc, sdCtx, sdResult, ch, stopErr>>

(* context.WithDeadline(context.Background(), deadline): the caller's
   deadline when it has one, else time.Now().Add(time.Second), which is
   pending; a deadline that has passed gives a context that is done. *)
WithDeadline(c) ==
    IF ctxDeadline[c] = "passed" THEN "context deadline exceeded" ELSE "nil"

(* An acquisition that sees a token and leaves it in the buffer *)
StartAcquire_Peek(c) ==
    /\ \/ pc[c] = "select" /\ sem > 0
       \/ pc[c] = "wokenSem"
    /\ sem' = sem
    /\ pc' = [pc EXCEPT ![c] = "acquired"]
    /\ jobCtx' = [jobCtx EXCEPT ![NewString(c)] = WithDeadline(c)]
    /\ late' = [late EXCEPT ![c] = FALSE]
    /\ UNCHANGED <<capacity, isShutdown, mu, running, wg, ctxDeadline,
                   ctxCancelled, result, jobpc, sdpc, sdCtx, sdResult, ch,
                   stopErr>>

(* An acquisition that does not wait for a token *)
StartAcquire_NoWait(c) ==
    /\ \/ pc[c] = "select" /\ sem' = sem - 1
       \/ pc[c] = "wokenSem" /\ sem' = sem
    /\ pc' = [pc EXCEPT ![c] = "acquired"]
    /\ jobCtx' = [jobCtx EXCEPT ![NewString(c)] = WithDeadline(c)]
    /\ late' = [late EXCEPT ![c] = FALSE]
    /\ UNCHANGED <<capacity, isShutdown, mu, running, wg, ctxDeadline,
                   ctxCancelled, result, jobpc, sdpc, sdCtx, sdResult, ch,
                   stopErr>>

(* select, case <-w.sem: a token taken from the buffer when the select
   polls, or the token a releasing job handed to the parked select;
   workKey := uuid.NewString(); the job's context *)
StartAcquire(c) ==
    /\ \/ pc[c] = "select" /\ sem > 0 /\ sem' = sem - 1
       \/ pc[c] = "wokenSem" /\ sem' = sem
    /\ pc' = [pc EXCEPT ![c] = "acquired"]
    /\ jobCtx' = [jobCtx EXCEPT ![NewString(c)] = WithDeadline(c)]
    /\ late' = [late EXCEPT ![c] = FALSE]
    /\ UNCHANGED <<capacity, isShutdown, mu, running, wg, ctxDeadline,
                   ctxCancelled, result, jobpc, sdpc, sdCtx, sdResult, ch,
                   stopErr>>

(* w.mu.Lock(); w.running[workKey] = cancel *)
StartRegister(c) ==
    /\ pc[c] = "acquired"
    /\ mu = Unlocked
    /\ mu' = c
    /\ running' = [k \in DOMAIN running \cup {NewString(c)} |->
                     IF k = NewString(c) THEN c ELSE running[k]]
    /\ pc' = [pc EXCEPT ![c] = "registered"]
    /\ UNCHANGED <<capacity, sem, isShutdown, wg, ctxDeadline, ctxCancelled,
                   late, result, jobpc, jobCtx, sdpc, sdCtx, sdResult, ch,
                   stopErr>>

(* w.wg.Add(1); go func() {...}(); return workKey, nil; the deferred
   w.mu.Unlock() *)
StartLaunch(c) ==
    /\ pc[c] = "registered"
    /\ mu = c
    /\ wg' = wg + 1
    /\ jobpc' = [jobpc EXCEPT ![NewString(c)] = "fn"]
    /\ Return(c, NewString(c), "nil")
    /\ mu' = Unlocked
    /\ UNCHANGED <<capacity, sem, isShutdown, running, jobCtx, sdpc, sdCtx,
                   sdResult, ch, stopErr>>

---------------------------------------------------------------------------
(* The job goroutine *)

(* The deadline of job j's context passes.  While Start runs, a deadline
   inherited from the caller passes with the caller's (CtxDeadlinePasses);
   this is the default deadline, or any deadline once Start has returned. *)
JobDeadlinePasses(j) ==
    /\ jobCtx[j] = "nil"
    /\ ctxDeadline[j] = "none"
    /\ jobCtx' = [jobCtx EXCEPT ![j] = "context deadline exceeded"]
    /\ UNCHANGED <<capacity, sem, isShutdown, mu, running, wg, pc, ctxDeadline,
                   ctxCancelled, late, result, jobpc, sdpc, sdCtx, sdResult, ch,
                   stopErr>>

(* fn(ctx) returns: at any time, the job function decides *)
JobReturn(j) ==
    /\ jobpc[j] = "fn"
    /\ jobpc' = [jobpc EXCEPT ![j] = "returned"]
    /\ UNCHANGED <<capacity, sem, isShutdown, mu, running, wg, pc, ctxDeadline,
                   ctxCancelled, late, result, jobCtx, sdpc, sdCtx, sdResult, ch,
                   stopErr>>

(* deferred: cancel() *)
JobCancel(j) ==
    /\ jobpc[j] = "returned"
    /\ jobCtx' = Cancel({j})
    /\ jobpc' = [jobpc EXCEPT ![j] = "cancelled"]
    /\ UNCHANGED <<capacity, sem, isShutdown, mu, running, wg, pc, ctxDeadline,
                   ctxCancelled, late, result, sdpc, sdCtx, sdResult, ch,
                   stopErr>>

(* A removeWork that deletes nothing *)
removeWork_Noop(workKey) ==
    /\ mu = Unlocked
    /\ running' = running

(* removeWork: delete(w.running, workKey) under w.mu *)
removeWork(workKey) ==
    /\ mu = Unlocked
    /\ running' = [k \in DOMAIN running \ {workKey} |-> running[k]]

(* deferred: w.removeWork(workKey) *)
JobRemove(j) ==
    /\ jobpc[j] = "cancelled"
    /\ removeWork(j)
    /\ jobpc' = [jobpc EXCEPT ![j] = "removed"]
    /\ UNCHANGED <<capacity, sem, isShutdown, mu, wg, pc, ctxDeadline,
                   ctxCancelled, late, result, jobCtx, sdpc, sdCtx, sdResult, ch,
                   stopErr>>

(* A cleanup that forgets w.wg.Done() *)
JobDone_NoDone(j) ==
    /\ jobpc[j] = "removed"
    /\ jobpc' = [jobpc EXCEPT ![j] = "wgdone"]
    /\ UNCHANGED <<capacity, sem, isShutdown, mu, running, wg, pc, ctxDeadline,
                   ctxCancelled, late, result, jobCtx, sdpc, sdCtx, sdResult, ch,
                   stopErr>>

(* deferred: w.wg.Done() *)
JobDone(j) ==
    /\ jobpc[j] = "removed"
    /\ wg' = wg - 1
    /\ jobpc' = [jobpc EXCEPT ![j] = "wgdone"]
    /\ UNCHANGED <<capacity, sem, isShutdown, mu, running, pc, ctxDeadline,
                   ctxCancelled, late, result, jobCtx, sdpc, sdCtx, sdResult, ch,
                   stopErr>>

(* A cleanup that forgets to give the token back *)
JobRelease_Leak(j) ==
    /\ jobpc[j] = "wgdone"
    /\ jobpc' = [jobpc EXCEPT ![j] = "done"]
    /\ UNCHANGED <<capacity, sem, isShutdown, mu, running, wg, pc, ctxDeadline,
                   ctxCancelled, late, result, jobCtx, sdpc, sdCtx, sdResult, ch,
                   stopErr>>

(* The Starts that sleep in their select *)
Parked == {c \in Callers : pc[c] = "parked"}

(* deferred: w.sem <- true.  The send hands the token to a Start that
   sleeps in its select, if there is one; else it puts the token into the
   buffer, and blocks while the buffer is full. *)
JobRelease(j) ==
    /\ jobpc[j] = "wgdone"
    /\ IF Parked # {}
         THEN /\ \E c \in Parked : pc' = [pc EXCEPT ![c] = "wokenSem"]
              /\ sem' = sem
         ELSE /\ sem < capacity
              /\ sem' = sem + 1
              /\ pc' = pc
    /\ jobpc' = [jobpc EXCEPT ![j] = "done"]
    /\ UNCHANGED <<capacity, isShutdown, mu, running, wg, ctxDeadline,
                   ctxCancelled, late, result, jobCtx, sdpc, sdCtx, sdResult, ch,
                   stopErr>>

---------------------------------------------------------------------------
(* Stop *)

(* A Stop that also takes the entry out of the registry *)
Stop_AlsoRemoves(workKey) ==
    /\ Constructed
    /\ mu = Unlocked
    /\ IF workKey \in DOMAIN running
         THEN /\ jobCtx' = Cancel({running[workKey]})
              /\ stopErr' = "nil"
         ELSE /\ jobCtx' = jobCtx
              /\ stopErr' = "is not running"
    /\ running' = [k \in DOMAIN running \ {workKey} |-> running[k]]
    /\ UNCHANGED <<capacity, sem, isShutdown, mu, wg, pc, ctxDeadline,
                   ctxCancelled, late, result, jobpc, sdpc, sdCtx, sdResult, ch>>

(* A Stop that, finding no entry, cancels every registered job *)
Stop_CancelOthers(workKey) ==
    /\ Constructed
    /\ mu = Unlocked
    /\ IF workKey \in DOMAIN running
         THEN /\ jobCtx' = Cancel({running[workKey]})
              /\ stopErr' = "nil"
         ELSE /\ jobCtx' = Cancel({running[k] : k \in DOMAIN running})
              /\ stopErr' = "is not running"
    /\ UNCHANGED <<capacity, sem, isShutdown, mu, running, wg, pc, ctxDeadline,
                   ctxCancelled, late, result, jobpc, sdpc, sdCtx, sdResult, ch>>

(* Stop: under w.mu, look the key up; cancel() or the "is not running" error *)
Stop(workKey) ==
    /\ Constructed
    /\ mu = Unlocked
    /\ IF workKey \in DOMAIN running
         THEN /\ jobCtx' = Cancel({running[workKey]})
              /\ stopErr' = "nil"
         ELSE /\ jobCtx' = jobCtx
              /\ stopErr' = "is not running"
    /\ UNCHANGED <<capacity, sem, isShutdown, mu, running, wg, pc, ctxDeadline,
                   ctxCancelled, late, result, jobpc, sdpc, sdCtx, sdResult, ch>>

---------------------------------------------------------------------------
(* Shutdown *)

(* A shutdown signal that the sleeping Starts do not receive *)
ShutdownCall_NoWake(expired) ==
    /\ Constructed
    /\ sdpc = "idle"
    /\ isShutdown' = TRUE
    /\ sdCtx' = IF expired THEN "expiredAtCall" ELSE "live"
    /\ sdpc' = "cancelAll"
    /\ UNCHANGED <<capacity, sem, mu, running, wg, pc, ctxDeadline,
                   ctxCancelled, late, result, jobpc, jobCtx, sdResult, ch,
                   stopErr>>

(* Shutdown is called with a context that is live or has already expired;
   close(w.isShutdown), which wakes every Start that sleeps in its select *)
ShutdownCall(expired) ==
    /\ Constructed
    /\ sdpc = "idle"
    /\ isShutdown' = TRUE
    /\ pc' = Wake(Callers, "wokenShutdown")
    /\ sdCtx' = IF expired THEN "expiredAtCall" ELSE "live"
    /\ sdpc' = "cancelAll"
    /\ UNCHANGED <<capacity, sem, mu, running, wg, ctxDeadline,
                   ctxCancelled, late, result, jobpc, jobCtx, sdResult, ch,
                   stopErr>>

(* The context passed to Shutdown expires or is cancelled during the call. *)
ShutdownCtxDone ==
    /\ sdpc \in {"cancelAll", "spawn", "select"}
    /\ sdCtx = "live"
    /\ sdCtx' = "expiredLater"
    /\ UNCHANGED <<capacity, sem, isShutdown, mu, running, wg, pc, ctxDeadline,
                   ctxCancelled, late, result, jobpc, jobCtx, sdpc, sdResult, ch,
                   stopErr>>

(* w.mu.Lock(); for _, cancel := range w.running { cancel() }; w.mu.Unlock() *)
ShutdownCancelAll ==
    /\ sdpc = "cancelAll"
    /\ mu = Unlocked
    /\ jobCtx' = Cancel({running[k] : k \in DOMAIN running})
    /\ sdpc' = "spawn"
    /\ UNCHANGED <<capacity, sem, isShutdown, mu, running, wg, pc, ctxDeadline,
                   ctxCancelled, late, result, jobpc, sdCtx, sdResult, ch,
                   stopErr>>

(* ch := make(chan struct{}); go func() { w.wg.Wait(); close(ch) }() *)
ShutdownSpawn ==
    /\ sdpc = "spawn"
    /\ ch' = "open"
    /\ sdpc' = "select"
    /\ UNCHANGED <<capacity, sem, isShutdown, mu, running, wg, pc, ctxDeadline,
                   ctxCancelled, late, result, jobpc, jobCtx, sdCtx, sdResult,
                   stopErr>>

(* The waiting goroutine: w.wg.Wait() returns when the counter is zero;
   close(ch) *)
WaiterDone ==
    /\ ch = "open"
    /\ wg = 0
    /\ ch' = "closed"
    /\ UNCHANGED <<capacity, sem, isShutdown, mu, running, wg, pc, ctxDeadline,
                   ctxCancelled, late, result, jobpc, jobCtx, sdpc, sdCtx,
                   sdResult, stopErr>>

(* select, case <-ch: return nil *)
ShutdownReturnNil ==
    /\ sdpc = "select"
    /\ ch = "closed"
    /\ sdpc' = "returned"
    /\ sdResult' = "nil"
    /\ UNCHANGED <<capacity, sem, isShutdown, mu, running, wg, pc, ctxDeadline,
                   ctxCancelled, late, result, jobpc, jobCtx, sdCtx, ch, stopErr>>

(* A Shutdown that looks at its context only after the drain *)
ShutdownReturnErr_AfterDrain ==
    /\ sdpc = "select"
    /\ ch = "closed"
    /\ sdCtx # "live"
    /\ sdpc' = "returned"
    /\ sdResult' = "ctxErr"
    /\ UNCHANGED <<capacity, sem, isShutdown, mu, running, wg, pc, ctxDeadline,
                   ctxCancelled, late, result, jobpc, jobCtx, sdCtx, ch, stopErr>>

(* select, case <-ctx.Done(): return ctx.Err() *)
ShutdownReturnErr ==
    /\ sdpc = "select"
    /\ sdCtx # "live"
    /\ sdpc' = "returned"
    /\ sdResult' = "ctxErr"
    /\ UNCHANGED <<capacity, sem, isShutdown, mu, running, wg, pc, ctxDeadline,
                   ctxCancelled, late, result, jobpc, jobCtx, sdCtx, ch, stopErr>>

---------------------------------------------------------------------------

Next ==
    \/ \E c \in Callers, d \in Deadlines : StartCall(c, d)
    \/ \E c \in Callers : CancelCallerCtx(c)
    \/ \E c \in Callers : CtxDeadlinePasses(c)
    \/ \E c \in Callers : StartPark(c)
    \/ \E c \in Callers : StartShutdown(c)
    \/ \E c \in Callers : StartCtxDone(c)
    \/ \E c \in Callers : StartAcquire(c)
    \/ \E c \in Callers : StartRegister(c)
    \/ \E c \in Callers : StartLaunch(c)
    \/ \E j \in Callers : JobDeadlinePasses(j)
    \/ \E j \in Callers : JobReturn(j)
    \/ \E j \in Callers : JobCancel(j)
    \/ \E j \in Callers : JobRemove(j)
    \/ \E j \in Callers : JobDone(j)
    \/ \E j \in Callers : JobRelease(j)
    \/ \E k \in Keys : Stop(k)
    \/ \E e \in BOOLEAN : ShutdownCall(e)
    \/ ShutdownCtxDone
    \/ ShutdownCancelAll
    \/ ShutdownSpawn
    \/ WaiterDone
    \/ ShutdownReturnNil
    \/ ShutdownReturnErr

Spec == Init /\ [][Next]_vars

(* What the scheduler and the clock guarantee: a goroutine that can take its
   next step takes it, a select with a ready case returns, and a pending
   deadline passes.  A job function is assumed to return once its context
   is done.  Calling Start, Stop or Shutdown, cancelling a caller's context
   and a job function returning while its context is live are the
   environment's choice and carry no fairness. *)
Fairness ==
    /\ \A c \in Callers :
          /\ WF_vars(StartPark(c) \/ StartShutdown(c) \/ StartCtxDone(c)
                       \/ StartAcquire(c))
          /\ WF_vars(StartRegister(c))
          /\ WF_vars(StartLaunch(c))
          /\ WF_vars(CtxDeadlinePasses(c))
    /\ \A j \in Callers :
          /\ WF_vars(JobDeadlinePasses(j))
          /\ WF_vars(jobCtx[j] # "nil" /\ JobReturn(j))
          /\ WF_vars(JobCancel(j))
          /\ WF_vars(JobRemove(j))
          /\ WF_vars(JobDone(j))
          /\ WF_vars(JobRelease(j))
    /\ WF_vars(ShutdownCancelAll)
    /\ WF_vars(ShutdownSpawn)
    /\ WF_vars(WaiterDone)
    /\ WF_vars(ShutdownReturnNil \/ ShutdownReturnErr)

FairSpec == Init /\ [][Next]_vars /\ Fairness

---------------------------------------------------------------------------
(* Counting *)

(* The jobs whose function is executing *)
Executing == {j \in Callers : jobpc[j] = "fn"}

(* The tokens taken from w.sem and not yet put back: by a Start whose
   select received one, or by a job goroutine that has not run its last
   deferred call *)
Held ==
    Cardinality({c \in Callers : pc[c] \in {"wokenSem", "acquired", "registered"}})
    + Cardinality({j \in Callers :
                     jobpc[j] \in {"fn", "returned", "cancelled", "removed", "wgdone"}})

(* The keys that are registered and not yet deregistered *)
Registered ==
    {NewString(c) : c \in {x \in Callers : pc[x] = "registered"}}
    \cup {j \in Callers : jobpc[j] \in {"fn", "returned", "cancelled"}}

(* No admitted job is left unfinished *)
AllFinished ==
    \A c \in Callers : /\ pc[c] \in {"idle", "select", "parked", "wokenShutdown",
                                    "wokenCtx", "returned"}
                       /\ jobpc[c] \in {"none", "done"}

---------------------------------------------------------------------------
(* C1: the number of job functions executing at the same time never
   exceeds capacity. *)
C1_ExecutingWithinCapacity ==
    Constructed => Cardinality(Executing) <= capacity

(* capacity jobs execute while one more Start sleeps in its select *)
C1_Witness ==
    /\ capacity >= 1
    /\ Cardinality(Executing) = capacity
    /\ \E c \in Callers : pc[c] = "parked"

(* C2: a Start that was called after close(w.isShutdown) leaves its select
   only by returning the "shutting down" error. *)
C2_LateStartShutsDown ==
    [][\A c \in Callers :
         (pc[c] = "select" /\ late[c] /\ pc'[c] # "select")
           => (pc'[c] = "returned" /\ result'[c].err = "shutting down"
               /\ result'[c].key = EmptyKey)]_vars

(* C3: when Shutdown returns nil the registry is empty, and it returns the
   context's error only when its context is done. *)
C3_NilMeansEmptyRegistry ==
    [][(sdpc = "select" /\ sdpc' = "returned")
         => /\ sdResult' = "nil" => Running = 0
            /\ sdResult' # "nil" => (sdResult' = "ctxErr" /\ sdCtx # "live")]_vars

(* C4: once Shutdown has returned nil, no job function is executing and no
   Start still holds a token it will launch a job with. *)
C4_NilMeansNoWork ==
    (sdpc = "returned" /\ sdResult = "nil")
      => \A c \in Callers : /\ jobpc[c] # "fn"
                            /\ pc[c] \notin {"acquired", "registered"}

(* C5: every admitted job gives back exactly one token and deregisters
   exactly once: free tokens plus held tokens equal capacity, the held
   tokens are within 0..capacity, the registry holds exactly the jobs
   between registration and removeWork, and when every admitted job has
   finished all tokens are free and the registry is empty. *)
C5_TokenConservation ==
    Constructed =>
      /\ sem + Held = capacity
      /\ Held >= 0 /\ Held <= capacity
      /\ DOMAIN running = Registered
      /\ AllFinished => (sem = capacity /\ Running = 0)

(* a job was admitted and launched, it has run its whole cleanup, nothing
   is left unfinished and every token is free again *)
C5_Witness ==
    /\ AllFinished
    /\ sem = capacity
    /\ \E j \in Callers : jobpc[j] = "done"
    /\ \E c \in Callers : pc[c] = "returned" /\ result[c].err = "nil"

(* C6: Stop with a key that is not in the registry returns the "is not
   running" error and changes nothing else. *)
C6_StopUnknownKey ==
    [][\A k \in Keys :
         (Stop(k) /\ k \notin DOMAIN running)
           => /\ stopErr' = "is not running"
              /\ UNCHANGED <<capacity, sem, isShutdown, mu, running, wg, pc,
                             ctxDeadline, ctxCancelled, late, result, jobpc,
                             jobCtx, sdpc, sdCtx, sdResult, ch>>]_vars

(* Stop reported a missing key while one job had completed and deregistered
   and another was executing with a live context *)
C6_Witness ==
    /\ stopErr = "is not running"
    /\ \E i \in Callers : jobpc[i] = "done"
    /\ \E j \in Callers : jobpc[j] = "fn" /\ jobCtx[j] = "nil"

(* No Start has been called *)
NoStart == \A c \in Callers : pc[c] = "idle"

(* C7, as claimed: Shutdown called with an expired context, on a Worker on
   which no job was started, returns the context's error and not nil. *)
C7_ExpiredShutdownReturnsErr ==
    (NoStart /\ sdCtx = "expiredAtCall" /\ sdpc = "returned")
      => sdResult = "ctxErr"

(* C7, amended: Shutdown called with an expired context, on a Worker on
   which no job was started, is never blocked: each of its steps can be
   taken, at its select the context case is ready, and it returns the
   context's error, or nil when the waiting goroutine had closed ch. *)
C7_ExpiredShutdownNeverBlocks ==
    (NoStart /\ sdCtx = "expiredAtCall") =>
      /\ sdpc = "cancelAll" => ENABLED ShutdownCancelAll
      /\ sdpc = "spawn" => ENABLED ShutdownSpawn
      /\ sdpc = "select" => ENABLED ShutdownReturnErr
      /\ sdpc = "returned" =>
            (sdResult = "ctxErr" \/ (sdResult = "nil" /\ ch = "closed"))

(* Shutdown, called with an expired context before any Start, returned the
   context's error while the waiting goroutine had not closed ch *)
C7_Witness ==
    /\ NoStart
    /\ sdCtx = "expiredAtCall"
    /\ sdpc = "returned"
    /\ sdResult = "ctxErr"
    /\ ch = "open"

(* C8: while capacity jobs execute, Running() is capacity and no token is
   free; a Start in its select with a live context and no shutdown cannot
   fail, takes a token exactly when one is free and sleeps exactly when
   none is; a sleeping Start takes no step of its own, it gets a token only
   from a job that runs the last step of its cleanup, and, the Worker
   having tokens at all, it does leave its select. *)
C8_StartBlocksWhileFull ==
    /\ [](Constructed =>
            /\ Cardinality(Executing) = capacity => (Running = capacity /\ sem = 0)
            /\ Held = capacity => sem = 0
            /\ \A c \in Callers :
                  /\ (pc[c] = "select" /\ ~isShutdown /\ ~CtxDone(c)) =>
                        /\ ~ENABLED StartShutdown(c)
                        /\ ~ENABLED StartCtxDone(c)
                        /\ ENABLED StartAcquire(c) <=> sem > 0
                        /\ ENABLED StartPark(c) <=> sem = 0
                  /\ pc[c] = "parked" =>
                        /\ ~ENABLED StartShutdown(c)
                        /\ ~ENABLED StartCtxDone(c)
                        /\ ~ENABLED StartAcquire(c)
                        /\ sem = 0)
    /\ [][\A c \in Callers :
             (pc[c] = "parked" /\ pc'[c] = "wokenSem")
               => \E j \in Callers : jobpc[j] = "wgdone" /\ jobpc'[j] = "done"]_vars
    /\ \A c \in Callers :
          (pc[c] \in {"select", "parked"} /\ capacity >= 1)
            ~> (pc[c] \notin {"select", "parked"})

(* capacity jobs execute, Running() is capacity, and one more Start with a
   live context sleeps in its select *)
C8_Witness ==
    /\ capacity >= 1
    /\ Cardinality(Executing) = capacity
    /\ Running = capacity
    /\ ~isShutdown
    /\ \E c \in Callers : pc[c] = "parked" /\ ~CtxDone(c)

(* C9: if every job function returns once its context is done, a Shutdown
   that was called returns: with nil after the waiting goroutine closed ch,
   or with the error of its own context. *)
C9_ShutdownReturns ==
    (sdpc = "cancelAll")
      ~> (/\ sdpc = "returned"
          /\ sdResult = "nil" => ch = "closed"
          /\ sdResult = "ctxErr" => sdCtx # "live")

(* Shutdown's context stayed live, a job it had to wait for ran its cleanup,
   and Shutdown returned nil *)
C9_Witness ==
    /\ sdpc = "returned"
    /\ sdResult = "nil"
    /\ sdCtx = "live"
    /\ \E j \in Callers : jobpc[j] = "done" /\ jobCtx[j] = "context canceled"

C11_CancelIdempotent ==
    [][/\ \A j \in Callers :
            jobCtx[j] \notin {"none", "nil"} => jobCtx'[j] = jobCtx[j]
       /\ \A k \in Keys :
            (Stop(k) /\ k \in DOMAIN running)
              => /\ stopErr' = "nil"
                 /\ jobCtx'[running[k]] # "nil"
                 /\ running' = running /\ sem' = sem
                 /\ jobCtx[running[k]] # "nil" => jobCtx' = jobCtx
       /\ ShutdownCancelAll
            => /\ running' = running /\ sem' = sem
               /\ \A k \in DOMAIN running : jobCtx'[running[k]] # "nil"
       /\ \A j \in Callers :
            JobCancel(j)
              => /\ running' = running /\ sem' = sem
                 /\ jobCtx'[j] # "nil"
                 /\ jobCtx[j] # "nil" => jobCtx' = jobCtx]_vars

(* the only job there is was stopped with success, Shutdown's cancel loop
   has run and the job has run its own deferred cancel(): it is still
   registered and its context holds the error of the first cancel *)
C11_Witness ==
    \E j \in Callers :
       /\ jobpc[j] = "cancelled"
       /\ j \in DOMAIN running
       /\ jobCtx[j] = "context canceled"
       /\ stopErr = "nil"
       /\ sdpc \in {"spawn", "select", "returned"}
       /\ \A i \in Callers \ {j} : pc[i] = "idle"

(* C12: a Start that sleeps in its select when close(w.isShutdown) runs
   admits no job afterwards: the close wakes it with the shutdown case, so
   no Start sleeps once the latch is closed; a Start woken that way takes
   no token, however many are released after the close, registers and
   launches nothing, and leaves only by returning the empty key with the
   "shutting down" error. *)
C12_ParkedStartShutsDown ==
    /\ [](isShutdown => Parked = {})
    /\ [][\A c \in Callers :
             /\ (pc[c] = "parked" /\ isShutdown') => pc'[c] = "wokenShutdown"
             /\ pc[c] = "wokenShutdown" =>
                  /\ \/ pc'[c] = "wokenShutdown"
                     \/ /\ pc'[c] = "returned"
                        /\ result'[c] = [key |-> EmptyKey, err |-> "shutting down"]
                  /\ jobpc'[c] = "none"
                  /\ NewString(c) \notin DOMAIN running']_vars

(* a Start slept in its select while a job held the only token; Shutdown
   closed the latch, the job then ran its cleanup and put the token back,
   and the woken Start has not taken it *)
C12_Witness ==
    /\ capacity = 1
    /\ sem = 1
    /\ \E c \in Callers : pc[c] = "wokenShutdown"
    /\ \E j \in Callers : jobpc[j] = "done"

(* C13: a Start whose context is already done when its select polls, with
   the latch open, leaves the select only by returning the empty key with
   the context's error, whether a token is free or not. *)
C13_DoneCtxStartFails ==
    [][\A c \in Callers :
         (pc[c] = "select" /\ ~isShutdown /\ CtxDone(c) /\ pc'[c] # "select")
           => /\ pc'[c] = "returned"
              /\ result'[c] = [key |-> EmptyKey, err |-> CtxErr(c)]]_vars

(* C14: a job's cleanup runs cancel(), then removeWork, then the token
   release, and all of them happen.  Every registered key belongs to a
   job that still holds its token, so Running() never exceeds the tokens
   that are out; a key leaves the registry only after the job's own
   cancel() and without a token moving; the token goes back only after the
   key has left the registry; and a job whose function has returned does
   reach the end of its cleanup. *)
C14_CleanupOrder ==
    /\ [](Constructed =>
            /\ \A k \in DOMAIN running :
                  \/ pc[k] = "registered"
                  \/ jobpc[k] \in {"fn", "returned", "cancelled"}
            /\ Running <= capacity - sem
            /\ Running <= Held)
    /\ [][\A j \in Callers :
             /\ (j \in DOMAIN running /\ j \notin DOMAIN running')
                  => /\ jobpc[j] = "cancelled" /\ jobpc'[j] = "removed"
                     /\ jobCtx[j] \notin {"none", "nil"}
                     /\ sem' = sem /\ pc' = pc
             /\ (jobpc[j] = "wgdone" /\ jobpc'[j] = "done")
                  => /\ j \notin DOMAIN running
                     /\ jobCtx[j] \notin {"none", "nil"}
                     /\ \/ sem' = sem + 1
                        \/ \E c \in Parked : pc'[c] = "wokenSem"]_vars
    /\ \A j \in Callers : (jobpc[j] = "returned") ~> (jobpc[j] = "done")

(* of two admitted jobs one has cancelled, deregistered and called
   wg.Done() but not yet put its token back: one key is registered and two
   tokens are out *)
C14_Witness ==
    /\ capacity = 2
    /\ sem = 0
    /\ Running = 1
    /\ \E j \in Callers : jobpc[j] = "wgdone" /\ j \notin DOMAIN running
    /\ \E i \in Callers : jobpc[i] = "fn" /\ i \in DOMAIN running

(* C15: once Shutdown has returned nil every token that was taken is back
   in w.sem and the registry is empty. *)
C15_NilMeansDrained ==
    (sdpc = "returned" /\ sdResult = "nil") => (sem = capacity /\ Running = 0)

(* C16: the context of an admitted job carries a deadline and is detached
   from the context passed to Start.  It is made done from the start when
   the caller's deadline has passed and live otherwise, also when the
   caller's context was cancelled; while it is live its deadline can still
   pass; cancelling the caller's context changes no job context; and a live
   job context becomes done only by its deadline passing, by Stop with its
   key, by Shutdown's cancel loop while it is registered, or by the job's
   own deferred cancel(). *)
C16_JobCtxDetached ==
    /\ [](\A j \in Callers :
            jobCtx[j] = "nil" =>
              (ENABLED JobDeadlinePasses(j) \/ ENABLED CtxDeadlinePasses(j)))
    /\ [][/\ \A c \in Callers :
               (~ctxCancelled[c] /\ ctxCancelled'[c]) => jobCtx' = jobCtx
          /\ \A c \in Callers :
               (jobCtx[c] = "none" /\ jobCtx'[c] # "none")
                 => jobCtx'[c] = IF ctxDeadline[c] = "passed"
                                   THEN "context deadline exceeded" ELSE "nil"
          /\ \A j \in Callers :
               (jobCtx[j] = "nil" /\ jobCtx'[j] # "nil")
                 => \/ /\ jobCtx'[j] = "context deadline exceeded"
                       /\ JobDeadlinePasses(j) \/ CtxDeadlinePasses(j)
                    \/ /\ jobCtx'[j] = "context canceled"
                       /\ \/ \E k \in DOMAIN running : running[k] = j /\ Stop(k)
                          \/ ShutdownCancelAll /\ j \in DOMAIN running
                          \/ JobCancel(j)]_vars

(* a Start has taken its token and derived the job's context, the caller's
   context is cancelled and the job's context is live *)
C16_Witness ==
    \E c \in Callers :
       /\ pc[c] \in {"acquired", "registered"}
       /\ ctxCancelled[c]
       /\ jobCtx[NewString(c)] = "nil"

(* C17: Stop with a registered key returns nil and only signals: when it
   returns the job's context is done, every other job context is as it
   was, the registry, the tokens, the WaitGroup and every goroutine's
   position are untouched, so Running() is the same; and Running() goes
   down only by a job's own removeWork. *)
C17_StopOnlySignals ==
    /\ [][\A k \in Keys :
             (Stop(k) /\ k \in DOMAIN running)
               => /\ stopErr' = "nil"
                  /\ jobCtx'[running[k]] \in {"context canceled",
                                              "context deadline exceeded"}
                  /\ \A j \in Callers \ {running[k]} : jobCtx'[j] = jobCtx[j]
                  /\ Cardinality(DOMAIN running') = Running
                  /\ UNCHANGED <<capacity, sem, isShutdown, mu, running, wg,
                                 pc, jobpc, sdpc, sdResult, ch>>]_vars
    /\ [][Cardinality(DOMAIN running') < Running
            => \E j \in Callers : JobRemove(j)]_vars

(* two jobs execute and are registered; Stop returned nil for one of them,
   whose context is cancelled, and the other's context is live *)
C17_Witness ==
    /\ stopErr = "nil"
    /\ Running = 2
    /\ \E i, j \in Callers :
          /\ jobpc[i] = "fn" /\ jobCtx[i] = "context canceled"
          /\ jobpc[j] = "fn" /\ jobCtx[j] = "nil"

(* C18: the release of a token never blocks: whenever a job goroutine is
   about to run its deferred w.sem <- true, before, during or after a
   shutdown, the send can proceed, because a Start sleeps in its select to
   receive it or the buffer has room. *)
C18_ReleaseNeverBlocks ==
    Constructed =>
      \A j \in Callers :
         jobpc[j] = "wgdone" =>
           /\ ENABLED JobRelease(j)
           /\ Parked # {} \/ sem < capacity

(* Shutdown has returned and a job goroutine is about to put its token
   back: the buffer has room for it *)
C18_Witness ==
    /\ sdpc = "returned"
    /\ \E j \in Callers : jobpc[j] = "wgdone"
    /\ sem < capacity

(* The positions of a Start inside its select *)
InSelect == {"select", "parked", "wokenShutdown", "wokenCtx", "wokenSem"}

(* C19: a Start blocked in its select is released by the first of the three
   events.  A sleeping Start is woken by the step that closes the latch, by
   the step that makes its context done, or by a job's token release, and
   by nothing else, and it leaves with the outcome of the event that woke
   it; and once Shutdown has been called, or its context is done, or it
   has a token within reach, a Start in its select does return, even with
   a context that never expires on a Worker with no token at all. *)
C19_BlockedStartReleased ==
    /\ [][\A c \in Callers :
             /\ (pc[c] = "parked" /\ isShutdown') => pc'[c] # "parked"
             /\ (pc[c] = "parked" /\ (ctxCancelled'[c] \/ ctxDeadline'[c] = "passed"))
                  => pc'[c] # "parked"
             /\ (pc[c] = "parked" /\ pc'[c] # "parked")
                  => \/ pc'[c] = "wokenShutdown" /\ ~isShutdown /\ isShutdown'
                     \/ /\ pc'[c] = "wokenCtx" /\ ~CtxDone(c)
                        /\ ctxCancelled'[c] \/ ctxDeadline'[c] = "passed"
                     \/ /\ pc'[c] = "wokenSem"
                        /\ \E j \in Callers : jobpc[j] = "wgdone" /\ jobpc'[j] = "done"
             /\ (pc[c] = "wokenShutdown" /\ pc'[c] # pc[c])
                  => (pc'[c] = "returned" /\ result'[c].err = "shutting down")
             /\ (pc[c] = "wokenCtx" /\ pc'[c] # pc[c])
                  => (pc'[c] = "returned" /\ result'[c].err = CtxErr(c))
             /\ (pc[c] = "wokenSem" /\ pc'[c] # pc[c]) => pc'[c] = "acquired"]_vars
    /\ \A c \in Callers :
          (\/ pc[c] \in InSelect /\ isShutdown
           \/ pc[c] \in InSelect /\ CtxDone(c)
           \/ pc[c] = "wokenSem"
           \/ pc[c] = "select" /\ sem > 0)
            ~> (pc[c] = "returned")

(* on a Worker with no token a Start with a context that never expires
   slept in its select, and Shutdown's close has woken it *)
C19_Witness ==
    /\ capacity = 0
    /\ \E c \in Callers :
          /\ pc[c] = "wokenShutdown"
          /\ ctxDeadline[c] = "none"
          /\ ~ctxCancelled[c]

(* C20: a Start that fails leaves the Worker as it was.  The steps of a
   Start up to and including a failing return (the call, going to sleep in
   the select, returning "shutting down" or the context's error) change
   nothing of the Worker and nothing of any other call or job; the failing
   return carries the empty key; and a Start that returned an error has
   derived no job context, registered no key and launched no job. *)
C20_FailedStartChangesNothing ==
    /\ [][\A c \in Callers :
             (\/ \E d \in Deadlines : StartCall(c, d)
              \/ StartPark(c)
              \/ StartShutdown(c)
              \/ StartCtxDone(c)
              \/ pc[c] # "returned" /\ pc'[c] = "returned" /\ result'[c].err # "nil")
               => /\ UNCHANGED <<capacity, sem, isShutdown, mu, running, wg,
                                 jobpc, jobCtx, sdpc, sdCtx, sdResult, ch,
                                 stopErr>>
                  /\ \A i \in Callers \ {c} :
                        pc'[i] = pc[i] /\ result'[i] = result[i]
                  /\ pc'[c] = "returned" =>
                        /\ result'[c].key = EmptyKey
                        /\ result'[c].err \in {"shutting down", "context canceled",
                                               "context deadline exceeded"}]_vars
    /\ [](\A c \in Callers :
            (pc[c] = "returned" /\ result[c].err # "nil")
              => /\ result[c].key = EmptyKey
                 /\ jobpc[NewString(c)] = "none"
                 /\ jobCtx[NewString(c)] = "none"
                 /\ NewString(c) \notin DOMAIN running)

(* a Start returned its context's error while a token was free and another
   job was executing with a live context; the token is still free *)
C20_Witness ==
    /\ capacity = 2
    /\ sem = 1
    /\ \E c \in Callers : pc[c] = "returned" /\ result[c].err = "context canceled"
    /\ \E j \in Callers : jobpc[j] = "fn" /\ jobCtx[j] = "nil"

===========================================================================
